---------------------------- MODULE Spec2Model ----------------------------
(***************************************************************************)
(* NPS-2p (src/nps2p.py): support-enumeration search for a Nash            *)
(* equilibrium of a two-player game (Porter, Nudelman, Shoham 2008).       *)
(*                                                                         *)
(* Python lists are sequences; list positions stay 0-based as in the code  *)
(* (range(len(S)) is 0..Len(S)-1, element at position i is S[i+1]).        *)
(* payoff[a1][a2][j] is the payoff of player j when player 1 plays a1 and  *)
(* player 2 plays a2.  Action lists are A1 = [0..n1-1], A2 = [0..n2-1].    *)
(*                                                                         *)
(* Two specifications:                                                     *)
(*   SpecDom  applies the three dominance functions to drawn inputs;       *)
(*   Spec     runs Algoritmo1 on a drawn game, one loop step per action.   *)
(***************************************************************************)
EXTENDS Integers, Sequences, FiniteSets, TLC

VARIABLES
    n1, n2, payoff,                 \* the game: sizes of A1, A2 and the payoff matrix
    fn, argIdj, argA, argB,         \* SpecDom: function under test and its arguments
    argS, argL,
    phase, out, out2,               \* SpecDom: progress and results
    pc, X, idx, x, S1, sup1,        \* Spec: Algoritmo1's locals
    Alinha2, S2, sup2, eNE, ret,
    visited,                        \* Spec: log of the size pairs the outer loop took
    calls                           \* Spec: log of the calls of VerificaViabilidade

vars == << n1, n2, payoff, fn, argIdj, argA, argB, argS, argL, phase, out, out2,
           pc, X, idx, x, S1, sup1, Alinha2, S2, sup2, eNE, ret,
           visited, calls >>

domVars == << fn, argIdj, argA, argB, argS, argL, phase, out, out2 >>
algVars == << pc, X, idx, x, S1, sup1, Alinha2, S2, sup2, eNE, ret,
           visited, calls >>

-----------------------------------------------------------------------------
(* Bounds of the model.                                                    *)

\* largest number of actions of player 1
MaxN1 == 2
\* largest number of actions of player 2
MaxN2 == 3
\* largest number of cells n1 * n2 of the payoff matrix
MaxCells == 6

\* payoff values of the games Algoritmo1 is run on
PayoffVals == {-1, 1}
\* payoff values of the games the dominance functions are applied to
DomVals == {0, 1, 2}

None == "None"

-----------------------------------------------------------------------------
(* Lists.                                                                  *)

\* range(n) as a list
Range(n) == [i \in 1..n |-> i - 1]

\* the elements of a list
Elems(s) == {s[i] : i \in 1..Len(s)}

\* all duplicate-free lists over the set D
DupFreeSeqs(D) ==
    UNION {{s \in [1..k -> D] : \A i, j \in 1..k : i # j => s[i] # s[j]}
           : k \in 0..Cardinality(D)}

\* list.index(v): 0-based position of the first occurrence of v
Index(s, v) == (CHOOSE i \in 1..Len(s) : s[i] = v /\ \A j \in 1..(i-1) : s[j] # v) - 1

\* [e for e in s if e != v]
RECURSIVE FilterNe(_, _)
FilterNe(s, v) ==
    IF s = << >> THEN << >>
    ELSE IF Head(s) # v THEN << Head(s) >> \o FilterNe(Tail(s), v)
    ELSE FilterNe(Tail(s), v)

-----------------------------------------------------------------------------
(* VerificaDominacao (lines 65-81): the loop over listaA, from position i  *)
(* on; resp starts True and the first x with util1 >= util2 makes it False *)
(* and leaves the loop.                                                    *)

\* util1 of the loop body: payoff[a1][x][0] when 1-idj is true, payoff[x][a1][1] otherwise
Util(a, xo, pay, j) == IF (1 - j) # 0 THEN pay[a][xo][0] ELSE pay[xo][a][1]

RECURSIVE VDLoopTie(_, _, _, _, _, _)
VDLoopTie(a, b, listaA, pay, j, i) ==
    IF i > Len(listaA) THEN TRUE
    ELSE IF Util(a, listaA[i], pay, j) > Util(b, listaA[i], pay, j) THEN FALSE
    ELSE VDLoopTie(a, b, listaA, pay, j, i + 1)

\* variant: the test is util1 > util2, so that a tie counts as domination
VerificaDominacaoTie(a, b, listaA, pay, j) == VDLoopTie(a, b, listaA, pay, j, 1)

RECURSIVE VDLoopLast(_, _, _, _, _, _, _)
VDLoopLast(a, b, listaA, pay, j, i, resp) ==
    IF i > Len(listaA) THEN resp
    ELSE VDLoopLast(a, b, listaA, pay, j, i + 1,
                    ~ (Util(a, listaA[i], pay, j) >= Util(b, listaA[i], pay, j)))

\* variant: resp is set by every x and the loop is never left early
VerificaDominacaoLast(a, b, listaA, pay, j) == VDLoopLast(a, b, listaA, pay, j, 1, TRUE)

RECURSIVE VDLoop(_, _, _, _, _, _)
VDLoop(a, b, listaA, pay, j, i) ==
    IF i > Len(listaA) THEN TRUE
    ELSE IF Util(a, listaA[i], pay, j) >= Util(b, listaA[i], pay, j) THEN FALSE
    ELSE VDLoop(a, b, listaA, pay, j, i + 1)

VerificaDominacao(a, b, listaA, pay, j) == VDLoop(a, b, listaA, pay, j, 1)

-----------------------------------------------------------------------------
(* VerificaDominacaoCondicional (lines 35-50).  The loop variables a1, a2   *)
(* are positions of S (range(len(S))) and are handed to VerificaDominacao   *)
(* as they are; `break` leaves the inner loop only, and resp is overwritten *)
(* by every later call.                                                     *)

\* the inner loop `for a2 in range(len(S))` from a2 = b on, with the current resp
RECURSIVE VDCInner(_, _, _, _, _, _, _)
VDCInner(a, b, n, Alinha, pay, j, resp) ==
    IF b >= n THEN resp
    ELSE IF a # b
         THEN IF VerificaDominacao(a, b, Alinha, pay, j) THEN TRUE
              ELSE VDCInner(a, b + 1, n, Alinha, pay, j, FALSE)
         ELSE VDCInner(a, b + 1, n, Alinha, pay, j, resp)

\* the outer loop `for a1 in range(len(S))` from a1 = a on
RECURSIVE VDCOuter(_, _, _, _, _, _)
VDCOuter(a, n, Alinha, pay, j, resp) ==
    IF a >= n THEN resp
    ELSE VDCOuter(a + 1, n, Alinha, pay, j, VDCInner(a, 0, n, Alinha, pay, j, resp))

VerificaDominacaoCondicional(pS, Alinha, pay, j) ==
    IF Len(pS) = 1 THEN FALSE
    ELSE VDCOuter(0, Len(pS), Alinha, pay, j, FALSE)

-----------------------------------------------------------------------------
(* RetiraDominadosCondicionalmente (lines 93-103).  a1, a2 are positions of *)
(* A2; the first a2 that dominates a1 filters the VALUE a1 out of A2linha   *)
(* and leaves the inner loop.                                               *)

\* inner loop from a2 = b on: the new A2linha
RECURSIVE RDCInner(_, _, _, _, _, _)
RDCInner(a, b, n, pS1, pay, A2linha) ==
    IF b >= n THEN A2linha
    ELSE IF a # b /\ VerificaDominacao(a, b, pS1, pay, 1) THEN FilterNe(A2linha, a)
    ELSE RDCInner(a, b + 1, n, pS1, pay, A2linha)

RECURSIVE RDCOuter(_, _, _, _, _)
RDCOuter(a, n, pS1, pay, A2linha) ==
    IF a >= n THEN A2linha
    ELSE RDCOuter(a + 1, n, pS1, pay, RDCInner(a, 0, n, pS1, pay, A2linha))

\* variant: returns after the first removal
RECURSIVE RDCOuterFirst(_, _, _, _, _)
RDCOuterFirst(a, n, pS1, pay, A2linha) ==
    IF a >= n THEN A2linha
    ELSE IF RDCInner(a, 0, n, pS1, pay, A2linha) # A2linha
         THEN RDCInner(a, 0, n, pS1, pay, A2linha)
         ELSE RDCOuterFirst(a + 1, n, pS1, pay, A2linha)

RetiraPrimeiroDominado(pA2, pS1, pay) == RDCOuterFirst(0, Len(pA2), pS1, pay, pA2)

\* variant: A2linha is never reassigned
RetiraNenhum(pA2, pS1, pay) == pA2

RetiraDominadosCondicionalmente(pA2, pS1, pay) == RDCOuter(0, Len(pA2), pS1, pay, pA2)

-----------------------------------------------------------------------------
(* SpecDom: the dominance functions on drawn inputs.  The payoff component *)
(* of the player the call does not read is 0.                              *)

NOwn(j) == IF j = 0 THEN n1 ELSE n2
NOpp(j) == IF j = 0 THEN n2 ELSE n1

InitGameDom ==
    /\ n1 \in 1..MaxN1
    /\ n2 \in 1..MaxN2
    /\ n1 * n2 <= MaxCells
    /\ argIdj \in {0, 1}
    /\ \E u \in [0..(n1-1) -> [0..(n2-1) -> DomVals]] :
          payoff = [a \in 0..(n1-1) |-> [b \in 0..(n2-1) |->
                       [k \in {0, 1} |-> IF k = argIdj THEN u[a][b] ELSE 0]]]

InitAlgIdle ==
    /\ pc = "idle" /\ X = << >> /\ idx = -1 /\ x = << >> /\ S1 = << >>
    /\ sup1 = << >> /\ Alinha2 = << >> /\ S2 = << >> /\ sup2 = << >>
    /\ eNE = << >> /\ ret = None /\ visited = << >> /\ calls = << >>

InitDom ==
    /\ InitGameDom
    /\ fn \in {"VerificaDominacao", "VerificaDominacaoCondicional",
               "RetiraDominadosCondicionalmente"}
    /\ fn = "RetiraDominadosCondicionalmente" => argIdj = 1
    /\ IF fn = "VerificaDominacao"
       THEN argA \in 0..(NOwn(argIdj)-1) /\ argB \in 0..(NOwn(argIdj)-1) /\ argS = << >>
       ELSE argA = 0 /\ argB = 0 /\ argS \in DupFreeSeqs(0..(NOwn(argIdj)-1))
    /\ argL \in DupFreeSeqs(0..(NOpp(argIdj)-1))
    /\ phase = "in" /\ out = None /\ out2 = None
    /\ InitAlgIdle

CallVerificaDominacao ==
    /\ fn = "VerificaDominacao" /\ phase = "in"
    /\ out' = VerificaDominacao(argA, argB, argL, payoff, argIdj)
    /\ phase' = "out"
    /\ UNCHANGED << n1, n2, payoff, fn, argIdj, argA, argB, argS, argL, out2, algVars >>

CallVerificaDominacaoCondicional ==
    /\ fn = "VerificaDominacaoCondicional" /\ phase = "in"
    /\ out' = VerificaDominacaoCondicional(argS, argL, payoff, argIdj)
    /\ phase' = "out"
    /\ UNCHANGED << n1, n2, payoff, fn, argIdj, argA, argB, argS, argL, out2, algVars >>

CallRetiraDominados ==
    /\ fn = "RetiraDominadosCondicionalmente" /\ phase = "in"
    /\ out' = RetiraDominadosCondicionalmente(argS, argL, payoff)
    /\ phase' = "out"
    /\ UNCHANGED << n1, n2, payoff, fn, argIdj, argA, argB, argS, argL, out2, algVars >>

\* the pruner applied to its own result, with the same opponent support
CallRetiraDominadosAgain ==
    /\ fn = "RetiraDominadosCondicionalmente" /\ phase = "out"
    /\ out2' = RetiraDominadosCondicionalmente(out, argL, payoff)
    /\ phase' = "out2"
    /\ UNCHANGED << n1, n2, payoff, fn, argIdj, argA, argB, argS, argL, out, algVars >>

NextDom ==
    \/ CallVerificaDominacao
    \/ CallVerificaDominacaoCondicional
    \/ CallRetiraDominados
    \/ CallRetiraDominadosAgain

SpecDom == InitDom /\ [][NextDom]_vars

-----------------------------------------------------------------------------
(* VerificaViabilidade (lines 121-170).  The model m has the variables     *)
(* p[0][0..], p[1][0..], v[0], v[1]; a constraint is a row c over them and *)
(* a constant, read  c[1]*x1 + ... + c[nv]*xnv + c[nv+1] (= or <=) 0.      *)
(* Variable order: p[0][ida], then p[1][ida], then v[0], v[1].             *)

Abs(k) == IF k < 0 THEN -k ELSE k

NVars(pS) == Len(pS[1]) + Len(pS[2]) + 2
VarP(i, ida, pS) == IF i = 0 THEN ida + 1 ELSE Len(pS[1]) + ida + 1
VarV(i, pS) == Len(pS[1]) + Len(pS[2]) + 1 + i

\* the payoff factor of p[1-i][..idb..] in the constraints of player i's action at position ida
Coef(i, ida, idb, pA, pay) ==
    IF 1 - i = 1 THEN pay[ida][Index(pA[2], idb)][0]
    ELSE pay[Index(pA[1], idb)][ida][1]

\* quicksum(p[1-i][S[1-i].index(idb)] * payoff... for idb in S[1-i]) from position t on:
\* the coefficient it gives the variable number col
RECURSIVE QuickSumCoef(_, _, _, _, _, _, _)
QuickSumCoef(i, ida, col, t, pS, pA, pay) ==
    LET opp == pS[(1 - i) + 1] IN
    IF t > Len(opp) THEN 0
    ELSE (IF VarP(1 - i, Index(opp, opp[t]), pS) = col
          THEN Coef(i, ida, opp[t], pA, pay) ELSE 0)
         + QuickSumCoef(i, ida, col, t + 1, pS, pA, pay)

\* quicksum(...) - v[i], as a row
PayoffRow(i, ida, pS, pA, pay) ==
    [col \in 1..(NVars(pS) + 1) |->
        QuickSumCoef(i, ida, col, 1, pS, pA, pay)
        - (IF col = VarV(i, pS) THEN 1 ELSE 0)]

\* lines 135-141: quicksum(...) == v[i] for every action of S[i]
SupportConstrs(pS, pA, pay) ==
    {[c |-> PayoffRow(i, Index(pA[i + 1], pS[i + 1][t]), pS, pA, pay), eq |-> TRUE]
        : <<i, t>> \in {q \in {0, 1} \X (1..(Len(pS[1]) + Len(pS[2]))) : q[2] <= Len(pS[q[1] + 1])}}

\* lines 144-151: quicksum(...) <= v[i] for every action of A[i] not in S[i]
NotSupportConstrs(pS, pA, pay) ==
    {[c |-> PayoffRow(i, Index(pA[i + 1], pA[i + 1][t]), pS, pA, pay), eq |-> FALSE]
        : <<i, t>> \in {q \in {0, 1} \X (1..(Len(pA[1]) + Len(pA[2]))) :
                           /\ q[2] <= Len(pA[q[1] + 1])
                           /\ pA[q[1] + 1][q[2]] \notin Elems(pS[q[1] + 1])}}

\* lines 153-154: quicksum(p[i][ida] for ida in range(len(S[i]))) == 1
SumConstrs(pS) ==
    {[c |-> [col \in 1..(NVars(pS) + 1) |->
                IF col = NVars(pS) + 1 THEN -1
                ELSE IF \E ida \in 0..(Len(pS[i + 1]) - 1) : VarP(i, ida, pS) = col THEN 1
                ELSE 0],
      eq |-> TRUE] : i \in {0, 1}}

\* line 131: p[i][ida] is created with lb=0.0
ProbBounds(pS) ==
    {[c |-> [col \in 1..(NVars(pS) + 1) |-> IF col = k THEN -1 ELSE 0], eq |-> FALSE]
        : k \in 1..(Len(pS[1]) + Len(pS[2]))}

\* line 129: v[i] is created by addVar with no lb argument; gurobipy's addVar has
\* lb=0.0 as its default, so v[i] >= 0 is part of the model
ValueBounds(pS) ==
    {[c |-> [col \in 1..(NVars(pS) + 1) |-> IF col = VarV(i, pS) THEN -1 ELSE 0], eq |-> FALSE]
        : i \in {0, 1}}

\* m.optimize() with no objective: status 2 (OPTIMAL) iff the constraints have a
\* solution.  Decided exactly by eliminating the variables one by one: through an
\* equation that mentions the variable when there is one, by Fourier-Motzkin
\* combination of the inequalities otherwise.
ElimVar(cons, j, nv) ==
    LET eqs == {r \in cons : r.eq /\ r.c[j] # 0} IN
    IF eqs # {}
    THEN LET e == CHOOSE r \in eqs : TRUE
             m == Abs(e.c[j])
             sg == IF e.c[j] > 0 THEN 1 ELSE -1
         IN {IF r.c[j] = 0 THEN r
             ELSE [c |-> [t \in 1..(nv + 1) |-> m * r.c[t] - sg * r.c[j] * e.c[t]],
                   eq |-> r.eq] : r \in cons \ {e}}
    ELSE LET pos == {r \in cons : r.c[j] > 0}
             neg == {r \in cons : r.c[j] < 0}
         IN {r \in cons : r.c[j] = 0}
            \cup {[c |-> [t \in 1..(nv + 1) |-> (-q[2].c[j]) * q[1].c[t] + q[1].c[j] * q[2].c[t]],
                   eq |-> FALSE] : q \in pos \X neg}

RECURSIVE Feasible(_, _, _)
Feasible(cons, j, nv) ==
    IF j > nv
    THEN \A r \in cons : IF r.eq THEN r.c[nv + 1] = 0 ELSE r.c[nv + 1] <= 0
    ELSE Feasible(ElimVar(cons, j, nv), j + 1, nv)

\* the constraints of the model m
Constrs(pS, pA, pay) ==
    SupportConstrs(pS, pA, pay) \cup NotSupportConstrs(pS, pA, pay)
    \cup SumConstrs(pS) \cup ProbBounds(pS) \cup ValueBounds(pS)

\* resp: [1, S1, p1, S2, p2] when st == 2, [0] otherwise.  The probability lists
\* p1, p2 are whatever solution the solver stops at; they are left out of resp.
VerificaViabilidade(N, pA1, pA2, pS1, pS2, pay) ==
    LET pS == << pS1, pS2 >>
        pA == << pA1, pA2 >>
    IN IF Feasible(Constrs(pS, pA, pay), 1, NVars(pS))
       THEN << 1, pS1, pS2 >>
       ELSE << 0 >>

-----------------------------------------------------------------------------
(* Algoritmo1 (lines 182-207).                                             *)

\* itertools.combinations(s, k): the k-element sublists of s, in lexicographic
\* order of positions
RECURSIVE Combinations(_, _)
Combinations(s, k) ==
    IF k = 0 THEN << << >> >>
    ELSE IF Len(s) < k THEN << >>
    ELSE LET with == Combinations(Tail(s), k - 1)
         IN [i \in 1..Len(with) |-> << Head(s) >> \o with[i]]
            \o Combinations(Tail(s), k)

\* line 187-188: tX in x1-major order, each pair extended by |x1-x2| and x1+x2
BuildX(m1, m2) ==
    [i \in 1..(m1 * m2) |->
        LET x1 == ((i - 1) \div m2) + 1
            x2 == ((i - 1) % m2) + 1
        IN << x1, x2, Abs(x1 - x2), x1 + x2 >>]

\* variant: the key with its two parts swapped
SortKeySwapped(e) == << e[4], e[3] >>

\* line 189: the key of sorted()
SortKey(e) == << e[3], e[4] >>

KeyLess(e, f) ==
    \/ SortKey(e)[1] < SortKey(f)[1]
    \/ SortKey(e)[1] = SortKey(f)[1] /\ SortKey(e)[2] < SortKey(f)[2]

\* sorted() is stable: an element goes after the elements whose key is not greater
RECURSIVE InsertByKey(_, _)
InsertByKey(e, s) ==
    IF s = << >> THEN << e >>
    ELSE IF KeyLess(e, Head(s)) THEN << e >> \o s
    ELSE << Head(s) >> \o InsertByKey(e, Tail(s))

RECURSIVE SortedFrom(_, _)
SortedFrom(s, acc) ==
    IF s = << >> THEN acc ELSE SortedFrom(Tail(s), InsertByKey(Head(s), acc))

Sorted(s) == SortedFrom(s, << >>)

A1 == Range(n1)
A2 == Range(n2)
N == << 0, 1 >>

InitDomIdle ==
    /\ fn = "Algoritmo1" /\ argIdj = 0 /\ argA = 0 /\ argB = 0
    /\ argS = << >> /\ argL = << >> /\ phase = "idle" /\ out = None /\ out2 = None

Init ==
    /\ n1 \in 1..MaxN1
    /\ n2 \in 1..MaxN2
    /\ n1 * n2 <= MaxCells
    /\ payoff \in [0..(n1-1) -> [0..(n2-1) -> [{0, 1} -> PayoffVals]]]
    /\ InitDomIdle
    /\ pc = "start" /\ X = << >> /\ idx = -1 /\ x = << >> /\ S1 = << >>
    /\ sup1 = << >> /\ Alinha2 = << >> /\ S2 = << >> /\ sup2 = << >>
    /\ eNE = << >> /\ ret = None /\ visited = << >> /\ calls = << >>

\* lines 183-189
Start ==
    /\ pc = "start"
    /\ X' = Sorted(BuildX(Len(A1), Len(A2)))
    /\ pc' = "for_x"
    /\ UNCHANGED << n1, n2, payoff, domVars, idx, x, S1, sup1, Alinha2, S2, sup2,
                    eNE, ret, visited, calls >>

\* lines 190-191: the next element of enumerate(X), or the end of the function
ForX ==
    /\ pc = "for_x"
    /\ IF idx + 1 < Len(X)
       THEN /\ idx' = idx + 1
            /\ x' = X[idx + 2]
            /\ S1' = Combinations(A1, X[idx + 2][1])
            /\ visited' = Append(visited, << X[idx + 2][1], X[idx + 2][2] >>)
            /\ pc' = "for_s1"
            /\ ret' = ret
       ELSE /\ ret' = None
            /\ pc' = "done"
            /\ UNCHANGED << idx, x, S1, visited >>
    /\ UNCHANGED << n1, n2, payoff, domVars, X, sup1, Alinha2, S2, sup2, eNE, calls >>

\* lines 192-194
ForS1 ==
    /\ pc = "for_s1"
    /\ IF S1 # << >>
       THEN /\ sup1' = Head(S1)
            /\ S1' = Tail(S1)
            /\ Alinha2' = RetiraDominadosCondicionalmente(A2, Head(S1), payoff)
            /\ pc' = "if1"
       ELSE /\ pc' = "for_x"
            /\ UNCHANGED << sup1, S1, Alinha2 >>
    /\ UNCHANGED << n1, n2, payoff, domVars, X, idx, x, S2, sup2, eNE, ret, visited, calls >>

\* lines 195-197
If1 ==
    /\ pc = "if1"
    /\ IF ~ VerificaDominacaoCondicional(sup1, Alinha2, payoff, 0)
       THEN /\ S2' = Combinations(Alinha2, x[2])
            /\ pc' = "for_s2"
       ELSE /\ pc' = "for_s1"
            /\ S2' = S2
    /\ UNCHANGED << n1, n2, payoff, domVars, X, idx, x, S1, sup1, Alinha2, sup2,
                    eNE, ret, visited, calls >>

\* lines 198-199
ForS2 ==
    /\ pc = "for_s2"
    /\ IF S2 # << >>
       THEN /\ sup2' = Head(S2)
            /\ S2' = Tail(S2)
            /\ pc' = "if2"
       ELSE /\ pc' = "for_s1"
            /\ UNCHANGED << sup2, S2 >>
    /\ UNCHANGED << n1, n2, payoff, domVars, X, idx, x, S1, sup1, Alinha2,
                    eNE, ret, visited, calls >>

\* line 200
If2 ==
    /\ pc = "if2"
    /\ pc' = IF ~ VerificaDominacaoCondicional(sup1, sup2, payoff, 0)
             THEN "viabilidade" ELSE "for_s2"
    /\ UNCHANGED << n1, n2, payoff, domVars, X, idx, x, S1, sup1, Alinha2, S2, sup2,
                    eNE, ret, visited, calls >>

\* lines 202-207
Viabilidade ==
    /\ pc = "viabilidade"
    /\ LET r == VerificaViabilidade(N, A1, A2, sup1, sup2, payoff)
           st == r[1]
       IN /\ eNE' = r
          /\ calls' = Append(calls, [idx |-> idx, sup1 |-> sup1, sup2 |-> sup2, st |-> st])
          /\ IF st = 1
             THEN ret' = SubSeq(r, 2, Len(r)) /\ pc' = "done"
             ELSE ret' = ret /\ pc' = "for_s2"
    /\ UNCHANGED << n1, n2, payoff, domVars, X, idx, x, S1, sup1, Alinha2, S2, sup2,
                    visited >>

Next ==
    \/ Start
    \/ ForX
    \/ ForS1
    \/ If1
    \/ ForS2
    \/ If2
    \/ Viabilidade

Spec == Init /\ [][Next]_vars

-----------------------------------------------------------------------------
(* Properties of the dominance functions (under SpecDom).                  *)

\* the own payoff of the player argIdj for action a against the opponent's action o
OwnPayoff(a, o) == IF argIdj = 0 THEN payoff[a][o][0] ELSE payoff[o][a][1]

\* a has a strictly smaller own payoff than b against every action of the list lst
StrictlyWorse(a, b, lst) ==
    \A k \in 1..Len(lst) : OwnPayoff(a, lst[k]) < OwnPayoff(b, lst[k])

\* C1: VerificaDominacao(a, b, O, payoff, idj) is true iff the own payoff of a is
\* strictly less than that of b against every o of O (true for the empty O,
\* false as soon as one o has payoff(a,o) >= payoff(b,o)).
C1_DominanceIffStrictlyWorse ==
    (fn = "VerificaDominacao" /\ phase = "out")
        => (out = StrictlyWorse(argA, argB, argL))

C1_Witness ==
    /\ fn = "VerificaDominacao" /\ phase = "out"
    /\ argIdj = 1 /\ Len(argL) = 2 /\ argA # argB /\ out = TRUE

\* C2: for a non-empty opponent list, VerificaDominacaoCondicional(S, O, payoff, idj)
\* is true iff two distinct members a, b of S exist with a dominated by b given O.
C2_OracleIffSomePairDominated ==
    (fn = "VerificaDominacaoCondicional" /\ phase = "out" /\ argL # << >>)
        => (out = (\E i, j \in 1..Len(argS) :
                      i # j /\ StrictlyWorse(argS[i], argS[j], argL)))

\* the actions of lst that no other action of lst dominates given the opponent list
\* opp, in the order of lst
NonDominated(lst, opp) ==
    LET Keep(a) == ~ \E b \in Elems(lst) \ {a} : StrictlyWorse(a, b, opp)
    IN SelectSeq(lst, Keep)

\* C3: for a non-empty opponent support S1, RetiraDominadosCondicionalmente(A2, S1,
\* payoff) is the sublist of A2, in order, of the actions that no other action of A2
\* dominates given S1 (actions taken by value).
C3_PrunerKeepsNonDominated ==
    (fn = "RetiraDominadosCondicionalmente" /\ phase = "out" /\ argL # << >>)
        => (out = NonDominated(argS, argL))

\* C4: pruning is idempotent: the pruner applied to its own result, with the same
\* non-empty opponent support, gives that result again.
C4_PruningIdempotent ==
    (fn = "RetiraDominadosCondicionalmente" /\ phase = "out2" /\ argL # << >>)
        => (out2 = out)

C4_Witness ==
    /\ fn = "RetiraDominadosCondicionalmente" /\ phase = "out2" /\ argL # << >>
    /\ Len(argS) = 3 /\ Len(out) = 2 /\ out2 = out

-----------------------------------------------------------------------------
(* Properties of Algoritmo1 (under Spec).                                  *)

\* the key (|x1 - x2|, x1 + x2) of the size pair q is lexicographically <= that of r
PairKeyLeq(q, r) ==
    \/ Abs(q[1] - q[2]) < Abs(r[1] - r[2])
    \/ Abs(q[1] - q[2]) = Abs(r[1] - r[2]) /\ q[1] + q[2] <= r[1] + r[2]

\* C5: the size pairs are pairs (x1, x2) with 1 <= x1 <= |A1|, 1 <= x2 <= |A2|, each
\* taken at most once, in non-decreasing order of the key (|x1 - x2|, x1 + x2); for
\* |A1| = |A2| = 2, (1,1) comes before (2,2), which comes before (1,2) and (2,1).
C5_SizePairOrder ==
    /\ \A i \in 1..Len(visited) :
          visited[i][1] \in 1..n1 /\ visited[i][2] \in 1..n2
    /\ \A i, j \in 1..Len(visited) :
          i < j => visited[i] # visited[j] /\ PairKeyLeq(visited[i], visited[j])
    /\ (n1 = 2 /\ n2 = 2) =>
          \A i, j \in 1..Len(visited) :
             i < j => /\ visited[j] # << 1, 1 >>
                      /\ visited[i] \in {<< 1, 2 >>, << 2, 1 >>} => visited[j] # << 2, 2 >>

C5_Witness ==
    /\ n1 = 2 /\ n2 = 2 /\ Len(visited) = 4
    /\ visited[1] = << 1, 1 >> /\ visited[2] = << 2, 2 >>

\* (a, b) is a pure-strategy Nash equilibrium of the game
IsPureNE(a, b) ==
    /\ \A c \in 0..(n1 - 1) : payoff[c][b][0] <= payoff[a][b][0]
    /\ \A d \in 0..(n2 - 1) : payoff[a][d][1] <= payoff[a][b][1]

HasPureNE == \E a \in 0..(n1 - 1), b \in 0..(n2 - 1) : IsPureNE(a, b)

\* C6: on a game with a pure Nash equilibrium, Algoritmo1 returns at the size pair
\* (1,1) (idx 0) a pair of singleton supports (a, b) that is a pure Nash equilibrium.
C6_PureEquilibriumFoundAtFirstPair ==
    (pc = "done" /\ HasPureNE)
        => /\ ret # None
           /\ idx = 0
           /\ Len(ret[1]) = 1 /\ Len(ret[2]) = 1
           /\ IsPureNE(ret[1][1], ret[2][1])

\* C7: Algoritmo1 never runs through every size pair and support combination
\* without a successful call of VerificaViabilidade.
C7_NoExhaustion == (pc = "done") => (ret # None)

\* C8: on a game with one action per player, whatever the sign of the payoffs,
\* VerificaViabilidade on the supports [0], [0] reports success.
C8_OneByOneFeasible ==
    (n1 = 1 /\ n2 = 1 /\ Len(calls) >= 1)
        => /\ calls[1].sup1 = << 0 >> /\ calls[1].sup2 = << 0 >>
           /\ calls[1].st = 1

\* s comes before t in lexicographic order (lists of the same length)
LexLess(s, t) ==
    \E k \in 1..Len(s) : s[k] < t[k] /\ \A m \in 1..(k - 1) : s[m] = t[m]

\* the actions of player 2 that no other action of player 2 strictly beats against
\* every action of the support s1
Pruned(s1) ==
    {b \in 0..(n2 - 1) :
        ~ \E d \in 0..(n2 - 1) :
            d # b /\ \A k \in 1..Len(s1) : payoff[s1[k]][b][1] < payoff[s1[k]][d][1]}

\* the call c is made before the call d in the order size pair, support1, support2
CallBefore(c, d) ==
    \/ c.idx < d.idx
    \/ c.idx = d.idx /\ LexLess(c.sup1, d.sup1)
    \/ c.idx = d.idx /\ c.sup1 = d.sup1 /\ LexLess(c.sup2, d.sup2)

\* C9: the calls of VerificaViabilidade come in the order size pair, then support1
\* (lexicographic), then support2 (lexicographic, within the pruned set); no call
\* follows a successful one, and the run returns the supports of the first success.
C9_FirstSuccessEndsSearch ==
    /\ \A i \in 1..Len(calls) :
          /\ calls[i].idx = idx
             \/ (calls[i].idx < idx /\ calls[i].st = 0)
          /\ << Len(calls[i].sup1), Len(calls[i].sup2) >> = visited[calls[i].idx + 1]
          /\ Elems(calls[i].sup2) \subseteq Pruned(calls[i].sup1)
    /\ \A i, j \in 1..Len(calls) : i < j => CallBefore(calls[i], calls[j])
    /\ \A i \in 1..(Len(calls) - 1) : calls[i].st = 0
    /\ (ret # None) <=> (calls # << >> /\ calls[Len(calls)].st = 1)
    /\ (ret # None) =>
          /\ pc = "done"
          /\ ret = << calls[Len(calls)].sup1, calls[Len(calls)].sup2 >>
    /\ (pc # "done" /\ calls # << >>) => calls[Len(calls)].st = 0

C9_Witness ==
    /\ pc = "done" /\ ret # None /\ Len(calls) >= 3
    /\ \E i \in 1..Len(calls) : Cardinality(Pruned(calls[i].sup1)) < n2

\* C10: every opponent list handed to VerificaDominacao is non-empty: the support1
\* given to the pruner, the pruned set given to the first test of support1, and
\* the support2 given to the second test.
C10_OpponentListNeverEmpty ==
    /\ pc = "if1" => (sup1 # << >> /\ Alinha2 # << >>)
    /\ pc = "if2" => (sup1 # << >> /\ sup2 # << >>)
    /\ \A i \in 1..Len(S1) : S1[i] # << >>
    /\ \A i \in 1..Len(S2) : S2[i] # << >>

C10_Witness ==
    /\ pc = "if1" /\ Len(sup1) = 2 /\ Alinha2 # << >> /\ Len(Alinha2) < n2

=============================================================================
